---- MODULE Spec2Model ----
(***************************************************************************)
(* The campaign generator of src/main.py as a state machine: one run of    *)
(* main() from the command line to process exit.  The command line, the    *)
(* environment, the file system before the run and the reply of the HTTP   *)
(* endpoint are the inputs; the file system, the two output streams and    *)
(* the exit status are the observable results.                             *)
(***************************************************************************)
EXTENDS Integers, Sequences, FiniteSets, TLC

\* ------------------------------------------------------------------ bounds
\* Longest completion text the endpoint returns in the model.
MaxLen == 2

\* ------------------------------------------------------- program constants
Tones == {"upbeat", "professional", "casual", "formal", "friendly"}
DefaultTone == "upbeat"
DefaultOutput == <<"out", "campaign.md">>
HTTP_OK == 200

\* ------------------------------------------------------------ input domains
\* Characters of a completion text; " " is the one str.strip() removes.
Chars == {" ", "a"}
Whitespace == {" "}
Texts == UNION {[1..n -> Chars] : n \in 0..MaxLen}

\* What response_json["choices"][0]["message"]["content"] evaluates to:
\*   KeyError / IndexError  a key is missing or choices is empty
\*   TypeError              a level of the path has the wrong type (choices: null)
\*   null                   JSON null
\*   nonstring              a truthy value that is no text (a number, a list of parts)
\*   text                   a string
NoText == <<>>
Contents ==
    [tag : {"KeyError", "IndexError", "TypeError", "null", "nonstring"}, text : {NoText}]
        \cup [tag : {"text"}, text : Texts]

\* The reply body.  kind: undecodable (r.json() raises), scalar (a JSON number,
\* boolean or null, on which `"error" in` raises TypeError) or object.  error:
\* absent, message (an object with a message member) or malformed (present, but
\* ['error']['message'] raises).  A JSON array or string behaves as an object
\* whose error is absent or malformed and whose content is a TypeError.
Bodies ==
    [kind : {"undecodable", "scalar"}, error : {"absent"},
     content : {[tag |-> "KeyError", text |-> NoText]}]
        \cup [kind : {"object"}, error : {"absent", "message", "malformed"},
              content : Contents]

Statuses == {HTTP_OK, 500}

\* Outcome of requests.post: a reply, or a RequestException (connection, timeout).
Replies == [arrived : {TRUE}, status : Statuses, body : Bodies]
NoReply ==
    [arrived |-> FALSE, status |-> 0,
     body |-> [kind |-> "undecodable", error |-> "absent",
               content |-> [tag |-> "KeyError", text |-> NoText]]]

\* sys.argv.  tone "absent" takes the default; info is --version or -h, which
\* argparse acts on where it stands on the command line (infoFirst: before --tone).
Outputs == {<<"campaign.md">>, DefaultOutput, <<"marketing", "q3", "campaign.md">>}
Argvs ==
    [event : {"absent", "Annual Gala"},
     tone : Tones \cup {"absent", "angry"},
     info : {"none", "version", "help"},
     infoFirst : BOOLEAN,
     output : Outputs,
     dry_run : BOOLEAN,
     show_response : BOOLEAN]

\* os.getenv("OPENROUTER_API_KEY"): None when unset, else the value.
Keys ==
    {[set |-> FALSE, value |-> ""], [set |-> TRUE, value |-> ""],
     [set |-> TRUE, value |-> "sk-or-v1"]}

OldData == <<"o", "l", "d">>
NoFile == [exists |-> FALSE, data |-> NoText]

VARIABLES
    argv,       \* the command line
    key,        \* the credential in the environment
    pc,         \* position of the run in main() / chat_completion()
    prompt,     \* build_prompt's result, <<>> before it is built
    httpCount,  \* HTTP POSTs issued
    resp,       \* r, the reply of requests.post
    response,   \* the value chat_completion returned to main
    dirs0,      \* the directories that existed before the run
    file0,      \* the file at the output path before the run
    dirs,       \* directories that exist (relative paths; the cwd always exists)
    file,       \* the file at the output path
    stdout,     \* lines printed to standard output
    stderr,     \* lines printed to the diagnostic stream
    exitCode,   \* process exit status, -1 while running
    failure     \* the failure the run reported, "none" if none

vars ==
    <<argv, key, pc, prompt, httpCount, resp, response, dirs0, file0, dirs, file,
      stdout, stderr, exitCode, failure>>

\* ------------------------------------------------------------------ helpers
\* os.path.dirname on a path of components.
DirName(p) == SubSeq(p, 1, Len(p) - 1)

\* The directories os.makedirs(d) makes sure exist: d and every ancestor.
Ancestors(d) == {SubSeq(d, 1, k) : k \in 1..Len(d)}

RECURSIVE LStrip(_)
LStrip(s) == IF s # <<>> /\ Head(s) \in Whitespace THEN LStrip(Tail(s)) ELSE s

RECURSIVE RStrip(_)
RStrip(s) ==
    IF s # <<>> /\ s[Len(s)] \in Whitespace THEN RStrip(SubSeq(s, 1, Len(s) - 1)) ELSE s

\* str.strip()
Strip(s) == RStrip(LStrip(s))

\* Python's `not x` on a returned content.
Falsy(c) == c.tag = "null" \/ (c.tag = "text" /\ c.text = <<>>)

\* A plausible slip: only the falsy test, the strip() test forgotten.
BlankNoStrip(c) == Falsy(c)

\* `not response or not response.strip()` on a text or null.
Blank(c) == Falsy(c) \/ (c.tag = "text" /\ Strip(c.text) = <<>>)

\* A plausible slip: `if key is None`.
KeyMissingNoneOnly(k) == ~k.set

\* `not key`
KeyMissing(k) == ~k.set \/ k.value = ""

ParsedTone(a) == IF a.tone = "absent" THEN DefaultTone ELSE a.tone

BuildPrompt(a) ==
    <<"Write five fundraising emails and four social captions for the", a.event,
      "on", "2024-03-15", "in a", ParsedTone(a), "tone.">>

\* sys.exit / interpreter exit with the failure the run reported.
Exit(code, why) == pc' = "done" /\ exitCode' = code /\ failure' = why

\* The handlers of chat_completion's outer try for an exception raised inside:
\* RequestException, then Exception.  r is bound once the post has returned.
Handled(exc) ==
    IF exc = "RequestException"
        THEN /\ stderr' = stderr \o <<"connect_failed", "exception_details">>
             /\ Exit(1, "transport")
        ELSE /\ stderr' = stderr \o
                    (IF resp.arrived THEN <<"unexpected_error", "response_text">>
                     ELSE <<"unexpected_error">>)
             /\ Exit(1, "unexpected")

\* An exception no handler of main() catches: traceback on stderr, status 1.
Uncaught == stderr' = stderr \o <<"traceback">> /\ Exit(1, "traceback")

\* --------------------------------------------------------------------- Init
Init ==
    /\ argv \in Argvs
    /\ key \in Keys
    /\ pc = "parse"
    /\ prompt = <<>>
    /\ httpCount = 0
    /\ resp = NoReply
    /\ response = [tag |-> "null", text |-> NoText]
    /\ dirs \in {D \in SUBSET Ancestors(DirName(argv.output)) :
                    \A d \in D : Ancestors(d) \subseteq D}
    /\ file \in {NoFile, [exists |-> TRUE, data |-> OldData]}
    /\ file.exists => (DirName(argv.output) = <<>> \/ DirName(argv.output) \in dirs)
    /\ dirs0 = dirs
    /\ file0 = file
    /\ stdout = <<>>
    /\ stderr = <<>>
    /\ exitCode = -1
    /\ failure = "none"

\* ------------------------------------------------------------------ actions
\* parser.parse_args(): options are taken left to right; --version and -h print
\* and exit 0 where they stand, an invalid --tone is an error where it stands,
\* a missing --event is an error once every option has been read.
ParseArgs ==
    /\ pc = "parse"
    /\ UNCHANGED <<dirs0, file0, argv, key, prompt, httpCount, resp, response, dirs, file>>
    /\ LET toneBad == argv.tone \notin Tones \cup {"absent"}
       IN  IF argv.info # "none" /\ (argv.infoFirst \/ ~toneBad)
               THEN /\ stdout' = Append(stdout, argv.info)
                    /\ UNCHANGED stderr
                    /\ Exit(0, "none")
           ELSE IF toneBad \/ argv.event = "absent"
               THEN /\ stderr' = stderr \o <<"usage", "argument_error">>
                    /\ UNCHANGED stdout
                    /\ Exit(2, "usage")
           ELSE /\ pc' = "dry_run"
                /\ UNCHANGED <<stdout, stderr, exitCode, failure>>

\* A plausible slip: the dry-run branch prints the prompt and forgets to return.
DryRunNoReturn ==
    /\ pc = "dry_run"
    /\ prompt' = BuildPrompt(argv)
    /\ UNCHANGED <<dirs0, file0, argv, key, httpCount, resp, response, dirs, file, exitCode, failure>>
    /\ pc' = "credential"
    /\ IF argv.dry_run
           THEN /\ stdout' = stdout \o <<"Generated Prompt:", "sep", "prompt", "sep">>
                /\ stderr' = Append(stderr, "generating")
           ELSE /\ stderr' = Append(stderr, "generating")
                /\ UNCHANGED stdout

\* build_prompt, then the dry-run short-circuit; otherwise on to the API call.
DryRun ==
    /\ pc = "dry_run"
    /\ prompt' = BuildPrompt(argv)
    /\ UNCHANGED <<dirs0, file0, argv, key, httpCount, resp, response, dirs, file>>
    /\ IF argv.dry_run
           THEN /\ stdout' = stdout \o <<"Generated Prompt:", "sep", "prompt", "sep">>
                /\ UNCHANGED stderr
                /\ Exit(0, "none")
           ELSE /\ stderr' = Append(stderr, "generating")
                /\ pc' = "credential"
                /\ UNCHANGED <<stdout, exitCode, failure>>

\* A plausible slip: sys.exit() without the message, which is status 0.
CheckCredentialExitZero ==
    /\ pc = "credential"
    /\ UNCHANGED <<dirs0, file0, argv, key, prompt, httpCount, resp, response, dirs, file, stdout>>
    /\ IF KeyMissing(key)
           THEN /\ UNCHANGED stderr
                /\ Exit(0, "no_key")
           ELSE /\ stderr' = stderr \o <<"sending", "using_model", "payload">>
                /\ pc' = "send"
                /\ UNCHANGED <<exitCode, failure>>

\* chat_completion: the credential check, then the tracing before the post.
CheckCredential ==
    /\ pc = "credential"
    /\ UNCHANGED <<dirs0, file0, argv, key, prompt, httpCount, resp, response, dirs, file, stdout>>
    /\ IF KeyMissing(key)
           THEN /\ stderr' = Append(stderr, "key_not_set")
                /\ Exit(1, "no_key")
           ELSE /\ stderr' = stderr \o <<"sending", "using_model", "payload">>
                /\ pc' = "send"
                /\ UNCHANGED <<exitCode, failure>>

\* requests.post: one POST; it raises a RequestException or returns a reply.
SendRequest ==
    /\ pc = "send"
    /\ httpCount' = httpCount + 1
    /\ UNCHANGED <<dirs0, file0, argv, key, prompt, response, dirs, file, stdout>>
    /\ \/ /\ UNCHANGED resp
          /\ Handled("RequestException")
       \/ \E r \in Replies :
            /\ resp' = r
            /\ stderr' = stderr \o <<"status_code", "response_headers">>
            /\ pc' = "decode"
            /\ UNCHANGED <<exitCode, failure>>

\* r.json() under the inner try.
DecodeJson ==
    /\ pc = "decode"
    /\ UNCHANGED <<dirs0, file0, argv, key, prompt, httpCount, resp, response, dirs, file, stdout>>
    /\ IF resp.body.kind = "undecodable"
           THEN /\ stderr' = Append(stderr, "decode_failed")
                /\ Exit(1, "json_decode")
           ELSE /\ pc' = "error_field"
                /\ UNCHANGED <<stderr, exitCode, failure>>

\* A plausible slip: the error-field check left out.
CheckErrorFieldSkipped ==
    /\ pc = "error_field"
    /\ UNCHANGED <<dirs0, file0, argv, key, prompt, httpCount, resp, response, dirs, file, stdout>>
    /\ IF resp.body.kind = "scalar"
           THEN Handled("TypeError")
           ELSE /\ pc' = "status"
                /\ UNCHANGED <<stderr, exitCode, failure>>

\* if "error" in response_json: print response_json['error']['message'], exit.
CheckErrorField ==
    /\ pc = "error_field"
    /\ UNCHANGED <<dirs0, file0, argv, key, prompt, httpCount, resp, response, dirs, file, stdout>>
    /\ IF resp.body.kind = "scalar"
           THEN Handled("TypeError")
       ELSE IF resp.body.error = "malformed"
           THEN Handled("TypeError")
       ELSE IF resp.body.error = "message"
           THEN /\ stderr' = Append(stderr, "api_error")
                /\ Exit(1, "api_error")
       ELSE /\ pc' = "status"
            /\ UNCHANGED <<stderr, exitCode, failure>>

\* A plausible slip: the error is printed but the exit is forgotten.
CheckStatusFallThrough ==
    /\ pc = "status"
    /\ UNCHANGED <<dirs0, file0, argv, key, prompt, httpCount, resp, response, dirs, file, stdout>>
    /\ pc' = "extract"
    /\ IF resp.status # HTTP_OK
           THEN /\ stderr' = stderr \o <<"error_response", "completed", "full_response">>
                /\ failure' = "http_status"
                /\ UNCHANGED exitCode
           ELSE /\ stderr' = stderr \o <<"completed", "full_response">>
                /\ UNCHANGED <<exitCode, failure>>

\* A plausible slip: the status code is never looked at.
CheckStatusIgnored ==
    /\ pc = "status"
    /\ UNCHANGED <<dirs0, file0, argv, key, prompt, httpCount, resp, response, dirs, file, stdout>>
    /\ stderr' = stderr \o <<"completed", "full_response">>
    /\ pc' = "extract"
    /\ UNCHANGED <<exitCode, failure>>

\* if r.status_code != 200: print the raw body, exit; else trace the reply.
CheckStatus ==
    /\ pc = "status"
    /\ UNCHANGED <<dirs0, file0, argv, key, prompt, httpCount, resp, response, dirs, file, stdout>>
    /\ IF resp.status # HTTP_OK
           THEN /\ stderr' = Append(stderr, "error_response")
                /\ Exit(1, "http_status")
           ELSE /\ stderr' = stderr \o <<"completed", "full_response">>
                /\ pc' = "extract"
                /\ UNCHANGED <<exitCode, failure>>

\* return response_json["choices"][0]["message"]["content"] under the inner try.
ExtractContent ==
    /\ pc = "extract"
    /\ UNCHANGED <<dirs0, file0, argv, key, prompt, httpCount, resp, dirs, file, stdout>>
    /\ LET c == resp.body.content
       IN  IF c.tag \in {"KeyError", "IndexError"}
               THEN /\ stderr' = stderr \o <<"extract_failed", "response_structure">>
                    /\ UNCHANGED response
                    /\ Exit(1, "extract")
           ELSE IF c.tag = "TypeError"
               THEN /\ UNCHANGED response
                    /\ Handled("TypeError")
           ELSE /\ response' = c
                /\ pc' = "validate"
                /\ UNCHANGED <<stderr, exitCode, failure>>

\* A plausible slip: the diagnostic printed without file=sys.stderr.
ValidateResultToStdout ==
    /\ pc = "validate"
    /\ UNCHANGED <<dirs0, file0, argv, key, prompt, httpCount, resp, response, dirs, file>>
    /\ IF Falsy(response)
           THEN /\ stdout' = Append(stdout, "empty_response")
                /\ UNCHANGED stderr
                /\ Exit(1, "empty_response")
       ELSE IF response.tag # "text"
           THEN UNCHANGED stdout /\ Uncaught
       ELSE IF Blank(response)
           THEN /\ stdout' = Append(stdout, "empty_response")
                /\ UNCHANGED stderr
                /\ Exit(1, "empty_response")
       ELSE /\ pc' = "makedirs"
            /\ UNCHANGED <<stdout, stderr, exitCode, failure>>

\* if not response or not response.strip(): a truthy value that is no text has
\* no strip() and raises AttributeError, which nothing catches.
ValidateResult ==
    /\ pc = "validate"
    /\ UNCHANGED <<dirs0, file0, argv, key, prompt, httpCount, resp, response, dirs, file, stdout>>
    /\ IF Falsy(response)
           THEN /\ stderr' = Append(stderr, "empty_response")
                /\ Exit(1, "empty_response")
       ELSE IF response.tag # "text"
           THEN Uncaught
       ELSE IF Blank(response)
           THEN /\ stderr' = Append(stderr, "empty_response")
                /\ Exit(1, "empty_response")
       ELSE /\ pc' = "makedirs"
            /\ UNCHANGED <<stderr, exitCode, failure>>

\* os.makedirs(os.path.dirname(args.output), exist_ok=True): os.makedirs("")
\* raises FileNotFoundError, which nothing catches.
MakeDirs ==
    /\ pc = "makedirs"
    /\ UNCHANGED <<dirs0, file0, argv, key, prompt, httpCount, resp, response, file, stdout>>
    /\ IF DirName(argv.output) = <<>>
           THEN UNCHANGED dirs /\ Uncaught
           ELSE /\ dirs' = dirs \cup Ancestors(DirName(argv.output))
                /\ pc' = "write"
                /\ UNCHANGED <<stderr, exitCode, failure>>

\* with open(args.output, "w") as f: f.write(response)
WriteFile ==
    /\ pc = "write"
    /\ UNCHANGED <<dirs0, file0, argv, key, prompt, httpCount, resp, response, dirs, stdout>>
    /\ IF DirName(argv.output) = <<>> \/ DirName(argv.output) \in dirs
           THEN /\ file' = [exists |-> TRUE, data |-> response.text]
                /\ pc' = "saved"
                /\ UNCHANGED <<stderr, exitCode, failure>>
           ELSE UNCHANGED file /\ Uncaught

\* print("Content saved to: ..."), then the optional echo, then main returns.
PrintSaved ==
    /\ pc = "saved"
    /\ UNCHANGED <<dirs0, file0, argv, key, prompt, httpCount, resp, response, dirs, file, stderr>>
    /\ stdout' = Append(stdout, "saved")
    /\ IF argv.show_response
           THEN pc' = "echo" /\ UNCHANGED <<exitCode, failure>>
           ELSE Exit(0, "none")

ShowResponse ==
    /\ pc = "echo"
    /\ UNCHANGED <<dirs0, file0, argv, key, prompt, httpCount, resp, response, dirs, file, stderr>>
    /\ stdout' = stdout \o <<"Generated Content:", "sep", "content", "sep">>
    /\ Exit(0, "none")

Next ==
    \/ ParseArgs
    \/ DryRun
    \/ CheckCredential
    \/ SendRequest
    \/ DecodeJson
    \/ CheckErrorField
    \/ CheckStatus
    \/ ExtractContent
    \/ ValidateResult
    \/ MakeDirs
    \/ WriteFile
    \/ PrintSaved
    \/ ShowResponse

Spec == Init /\ [][Next]_vars

\* ------------------------------------------------------------- vocabulary
Done == pc = "done"

\* parse_args returned a namespace: no --version / -h, an event, a tone of the set.
ArgsAccepted ==
    /\ argv.info = "none"
    /\ argv.event # "absent"
    /\ ParsedTone(argv) \in Tones

NonBlankText(c) == c.tag = "text" /\ \E i \in DOMAIN c.text : c.text[i] # " "

BlankContent(c) == c.tag = "null" \/ (c.tag = "text" /\ \A i \in DOMAIN c.text : c.text[i] = " ")

\* A status-200 JSON object without an error field.
CleanReply == resp.arrived /\ resp.status = 200 /\ resp.body.kind = "object"
                  /\ resp.body.error = "absent"

\* ... whose choices[0].message.content is a text with a non-whitespace character.
ValidCompletion == CleanReply /\ NonBlankText(resp.body.content)

ParentExists == DirName(argv.output) = <<>> \/ DirName(argv.output) \in dirs

FileSystemUntouched == file = file0 /\ dirs = dirs0

PromptFrame == <<"Generated Prompt:", "sep", "prompt", "sep">>
EchoFrame == <<"Generated Content:", "sep", "content", "sep">>

Written == file.exists /\ response.tag = "text" /\ file.data = response.text

\* -------------------------------------------------------------------- C1
\* C1: every run that is not a dry run, has a credential and receives a
\* status-200 JSON reply without error field whose content is a text with a
\* non-whitespace character ends with the output file holding exactly that
\* content, whatever it held before.
C1_FileHoldsExactlyContent ==
    (Done /\ ~argv.dry_run /\ ~KeyMissing(key) /\ ValidCompletion)
        => file = [exists |-> TRUE, data |-> resp.body.content.text]

\* -------------------------------------------------------------------- C2
\* C2: for every configured output path, a bare file name included, the persist
\* step after a valid completion leaves the parent directory existing and the
\* file written, and the run succeeds.
C2_ParentEnsuredAndWritten ==
    (Done /\ ValidCompletion) => (ParentExists /\ Written /\ exitCode = 0)

\* -------------------------------------------------------------------- C3
\* C3 as stated: whenever the dry-run flag is set the run prints the prompt and
\* ends with status 0, with no HTTP request and an untouched file system.
C3_DryRunAlwaysSucceeds ==
    argv.dry_run =>
        /\ httpCount = 0
        /\ FileSystemUntouched
        /\ Done => (exitCode = 0 /\ stdout = PromptFrame)

\* C3 as amended: whenever the dry-run flag is set there is no HTTP request and
\* the file system is untouched, with or without a credential; and when the
\* arguments were accepted the run prints the prompt and ends with status 0.
C3_DryRun ==
    argv.dry_run =>
        /\ httpCount = 0
        /\ FileSystemUntouched
        /\ (Done /\ ArgsAccepted) =>
               (exitCode = 0 /\ failure = "none" /\ stdout = PromptFrame /\ stderr = <<>>)

\* A dry run with accepted arguments and no credential that has ended, the
\* output file of before the run still there.
C3_Witness ==
    Done /\ argv.dry_run /\ ArgsAccepted /\ KeyMissing(key) /\ file0.exists
        /\ stdout = PromptFrame

\* -------------------------------------------------------------------- C4
\* C4: once the decoded body is seen to hold an error field, the run never gets
\* past the error-field check, ends with a non-zero status and leaves the file
\* system untouched, whatever the HTTP status and the choices array.
C4_ErrorFieldAborts ==
    (resp.arrived /\ resp.body.kind = "object" /\ resp.body.error # "absent") =>
        /\ pc \in {"decode", "error_field", "done"}
        /\ FileSystemUntouched
        /\ Done => (exitCode = 1 /\ failure \in {"api_error", "unexpected"})

\* A status-200 reply with an error message and a valid choices array, aborted.
C4_Witness ==
    Done /\ resp.arrived /\ resp.status = 200 /\ resp.body.kind = "object"
        /\ resp.body.error = "message" /\ NonBlankText(resp.body.content)
        /\ failure = "api_error" /\ exitCode = 1 /\ ~file.exists

\* -------------------------------------------------------------------- C5
\* C5: when the completion call returns an empty, whitespace-only or null
\* content, the run ends in the 'empty response' failure with a non-zero status
\* and never reaches the directory creation or the write.
C5_EmptyResponseFails ==
    (CleanReply /\ BlankContent(resp.body.content)) =>
        /\ pc \in {"decode", "error_field", "status", "extract", "validate", "done"}
        /\ FileSystemUntouched
        /\ Done => (failure = "empty_response" /\ exitCode = 1
                        /\ stderr[Len(stderr)] = "empty_response")

\* A whitespace-only content, rejected while the parent directory is still absent.
C5_Witness ==
    Done /\ CleanReply /\ resp.body.content.tag = "text"
        /\ Len(resp.body.content.text) > 0 /\ BlankContent(resp.body.content)
        /\ failure = "empty_response" /\ ~ParentExists

\* -------------------------------------------------------------------- C6
\* C6: in every state, an HTTP request has been issued only if an event name
\* was given, the tone is of the set, dry-run is off and the credential is set
\* to a non-empty value; a run stopped by a bad argument or by a missing
\* credential ends with a non-zero status and no request.
C6_RequestOnlyWhenAuthorised ==
    /\ httpCount > 0 =>
           /\ argv.event # "absent"
           /\ ParsedTone(argv) \in Tones
           /\ ~argv.dry_run
           /\ key.set /\ key.value # ""
    /\ (Done /\ failure \in {"usage", "no_key"}) => (httpCount = 0 /\ exitCode # 0)
    /\ (Done /\ ArgsAccepted /\ ~argv.dry_run /\ (~key.set \/ key.value = "")) =>
           failure = "no_key"
    /\ (Done /\ argv.info = "none" /\ ~(argv.event # "absent" /\ ParsedTone(argv) \in Tones))
           => failure = "usage"

\* A run with accepted arguments stopped by an empty credential.
C6_Witness ==
    Done /\ ArgsAccepted /\ ~argv.dry_run /\ key.set /\ key.value = ""
        /\ failure = "no_key" /\ httpCount = 0

\* -------------------------------------------------------------------- C7
\* C7 as stated: after the reply arrives the first matching check of
\* undecodable body, error field present, status not 200, content missing
\* decides the failure reported.
C7_FirstMatchDecides ==
    (Done /\ resp.arrived) =>
        IF resp.body.kind = "undecodable" THEN failure = "json_decode"
        ELSE IF resp.body.kind = "object" /\ resp.body.error # "absent"
            THEN failure = "api_error"
        ELSE IF resp.status # 200 THEN failure = "http_status"
        ELSE IF resp.body.content.tag \in {"KeyError", "IndexError"}
            THEN failure = "extract"
        ELSE failure \notin {"json_decode", "api_error", "http_status", "extract"}

\* The failure the ordered checks report, a check that raises included.
ExpectedFailure ==
    IF resp.body.kind = "undecodable" THEN {"json_decode"}
    ELSE IF resp.body.kind = "scalar" \/ resp.body.error = "malformed" THEN {"unexpected"}
    ELSE IF resp.body.error = "message" THEN {"api_error"}
    ELSE IF resp.status # 200 THEN {"http_status"}
    ELSE IF resp.body.content.tag \in {"KeyError", "IndexError"} THEN {"extract"}
    ELSE IF resp.body.content.tag = "TypeError" THEN {"unexpected"}
    ELSE {"none", "empty_response", "traceback"}

\* C7 as amended: the checks run in the order undecodable body, error field,
\* status not 200, content missing, and the first that matches decides the
\* failure; a check that itself raises (a scalar body, an error field without
\* message, a choices path of the wrong type) ends the run there as an
\* unexpected error.
C7_CheckOrder == (Done /\ resp.arrived) => failure \in ExpectedFailure

\* A 500 reply with no error field and a valid choices array, fatal.
C7_Witness ==
    Done /\ resp.arrived /\ resp.status = 500 /\ resp.body.kind = "object"
        /\ resp.body.error = "absent" /\ NonBlankText(resp.body.content)
        /\ failure = "http_status"

\* -------------------------------------------------------------------- C8
DryRunCompleted == argv.dry_run /\ stdout = PromptFrame

TextSaved == Written /\ Len(stdout) > 0 /\ stdout[1] = "saved"

\* C8 as stated: the process ends with status 0 only if it completed a dry run
\* or wrote the completion text; every failure ends with a non-zero status.
C8_ZeroOnlyOnDryRunOrWrite ==
    Done =>
        /\ exitCode = 0 => (DryRunCompleted \/ TextSaved)
        /\ failure # "none" => exitCode # 0

\* C8 as amended: status 0 only if the run printed the version or the help,
\* completed a dry run or wrote the completion text; every failure ends with a
\* non-zero status.
C8_ExitStatus ==
    Done =>
        /\ exitCode = 0 =>
               (stdout = <<argv.info>> \/ DryRunCompleted \/ TextSaved)
        /\ failure # "none" => exitCode \in {1, 2}
        /\ failure = "none" => exitCode = 0

\* A run that replaced the file of before by the completion and ended with 0.
C8_Witness ==
    Done /\ exitCode = 0 /\ TextSaved /\ file0.exists /\ file # file0

\* -------------------------------------------------------------------- C9
Rank(p) ==
    CASE p = "parse" -> 0 [] p = "dry_run" -> 1 [] p = "credential" -> 2
      [] p = "send" -> 3 [] p = "decode" -> 4 [] p = "error_field" -> 5
      [] p = "status" -> 6 [] p = "extract" -> 7 [] p = "validate" -> 8
      [] p = "makedirs" -> 9 [] p = "write" -> 10 [] p = "saved" -> 11
      [] p = "echo" -> 12 [] p = "done" -> 13

\* C9: every step moves forward; at most one POST is ever issued; a step that
\* detects a failure ends the run, with the file as it was before the run.
C9_NoRetry ==
    [][/\ Rank(pc') > Rank(pc)
       /\ httpCount' <= 1
       /\ failure' # "none" => (pc' = "done" /\ file' = file0 /\ httpCount' <= httpCount + 1)
       /\ failure # "none" => UNCHANGED <<httpCount, file, dirs>>]_vars

\* A transport failure after the one POST, ended.
C9_Witness == Done /\ failure = "transport" /\ httpCount = 1 /\ file = file0

\* ------------------------------------------------------------------- C10
StdoutOnly == {"version", "help", "Generated Prompt:", "prompt", "sep", "saved",
               "Generated Content:", "content"}

\* C10 as stated: standard output holds only the 'content saved' confirmation
\* and, with show-response, the echoed content after the file was saved.
C10_StdoutOnlySavedAndEcho ==
    \/ stdout = <<>>
    \/ stdout = <<"saved">> /\ Written
    \/ stdout = <<"saved">> \o EchoFrame /\ Written /\ argv.show_response

\* C10 as amended: standard output holds only the version or help text, the
\* framed prompt of a dry run, the 'content saved' confirmation and, with
\* show-response, the echoed content after the file was saved; every other
\* message is on the diagnostic stream.
C10_Streams ==
    /\ \/ stdout = <<>>
       \/ stdout = <<argv.info>> /\ argv.info # "none"
       \/ stdout = PromptFrame /\ argv.dry_run
       \/ stdout = <<"saved">> /\ Written
       \/ stdout = <<"saved">> \o EchoFrame /\ Written /\ argv.show_response
    /\ \A i \in DOMAIN stderr : stderr[i] \notin StdoutOnly
    /\ (Done /\ failure # "none") => stderr # <<>>

\* A run with show-response that saved the file and echoed the content.
C10_Witness ==
    Done /\ argv.show_response /\ stdout = <<"saved">> \o EchoFrame /\ Written
        /\ stderr # <<>>

====
